---- MODULE Spec2Model ----
(***************************************************************************)
(* Model of the terrain generation scheduler of valence_terrain            *)
(* (src/src/lib.rs) together with the hot-reload command handler of the    *)
(* example server (src/example/hot_reload.rs).                             *)
(*                                                                         *)
(* Chunk positions are restricted to the strip z = 0, x \in 0..MaxX, so a  *)
(* ChunkPos is the integer x.  A view is the disc of chunk positions whose *)
(* squared distance to the view's centre is at most the squared view       *)
(* distance (the host library's constant margin around the disc is left    *)
(* out: it only enlarges every disc by the same amount).                   *)
(*                                                                         *)
(* Every TerrainGenerator::new creates a new generation g: a request       *)
(* channel reqCh[g], a result channel resCh[g] and NWorkers worker threads *)
(* worker[g][w].  gen is the generation held by the TerrainGenerator       *)
(* component; the channels of older generations have lost the endpoints    *)
(* the component owned.                                                    *)
(***************************************************************************)
EXTENDS Integers, Sequences, FiniteSets, TLC

\* ---------------------------------------------------------------- bounds
MaxX == 1
MaxDist == 1
NumClients == 2
NWorkers == 1
MaxGen == 1

Coords == 0..MaxX
Dists == 0..MaxDist
Clients == 1..NumClients
Workers == 1..NWorkers
Gens == 0..MaxGen

\* TerrainGenConfig::default().height
DefaultHeight == 384

\* heights a configuration file may give (u32, never validated by parse)
Heights == {1, DefaultHeight}

\* ------------------------------------------------------------- encodings
\* layer.chunk(pos) is None
NoChunk == -1
\* pending has no entry for the position (Entry::Vacant)
Absent == -2
\* pending[pos] = None: already sent to the thread pool
InFlight == -1
\* worker thread states other than "synthesizing position c" (c \in Coords)
Idle == -1
Exited == -2
Panicked == -3

VARIABLES
    phase,        \* the system of the chained tick that runs next
    chunks,       \* ChunkLayer: position -> NoChunk or generation of the chunk
    pending,      \* TerrainGenerator.pending
    needs_reload, \* TerrainGenerator.needs_reload
    render_dist,  \* TerrainGenerator.render_dist
    gen,          \* generation of the TerrainGenerator component
    height,       \* ChunkWorkerState.height of every generation
    reqCh,        \* per generation: Sender<ChunkPos> -> Receiver<ChunkPos>
    resCh,        \* per generation: finished (pos, chunk) pairs not yet drained
    worker,       \* per generation and worker thread: Idle, position, Exited, Panicked
    viewPos, viewDist,  \* View of every client
    oldPos, oldDist,    \* OldView of every client
    added,        \* client.is_added()
    enq,          \* history: the priorities queue_pos was called with this tick
    asserted,     \* TRUE once the assert! of send_recv_chunks has failed
    frozen,       \* TRUE once the clients and the administrator act no more
    job,          \* input of the function under study (column or token string)
    out           \* its result, <<>> before it has run

vars == <<phase, chunks, pending, needs_reload, render_dist, gen, height, reqCh,
          resCh, worker, viewPos, viewDist, oldPos, oldDist, added, enq,
          asserted, frozen, job, out>>

clientVars == <<viewPos, viewDist, oldPos, oldDist, added>>
poolVars == <<reqCh, resCh, worker>>
auxVars == <<frozen, job, out>>
schedVars == <<phase, chunks, pending, needs_reload, render_dist, gen, height,
               reqCh, resCh, worker, viewPos, viewDist, oldPos, oldDist, added,
               enq, asserted>>

\* --------------------------------------------------------------- helpers
Min(a, b) == IF a <= b THEN a ELSE b

SetMin(S) == CHOOSE m \in S : \A n \in S : m <= n

\* ChunkPos::distance_squared on the strip z = 0
DistanceSquared(a, b) == (a - b) * (a - b)

\* ChunkView::contains
Contains(pos, dist, c) == DistanceSquared(pos, c) <= dist * dist

\* ChunkView::iter
ViewIter(pos, dist) == {c \in Coords : Contains(pos, dist, c)}

\* ChunkView::diff: positions of the view that the other view does not contain
ViewDiff(pos, dist, opos, odist) ==
    {c \in ViewIter(pos, dist) : ~Contains(opos, odist, c)}

\* lines 161-166: the view distance used for client cl this tick
EffViewDist(cl) ==
    IF render_dist # 0 THEN Min(viewDist[cl], render_dist) ELSE viewDist[cl]

\* lines 162-165: the distance given to the copy of the old view; with an
\* override it is taken from the (already clipped) current view
EffOldDist(cl) ==
    IF render_dist # 0 THEN Min(EffViewDist(cl), render_dist) ELSE oldDist[cl]

\* the reload flag honoured for the first client of the loop only
EnqSetFlagOnce(cl) ==
    IF added[cl] \/ (needs_reload /\ cl = 1)
    THEN ViewIter(viewPos[cl], EffViewDist(cl))
    ELSE IF oldPos[cl] # viewPos[cl] \/ EffOldDist(cl) # EffViewDist(cl)
         THEN ViewDiff(viewPos[cl], EffViewDist(cl), oldPos[cl], EffOldDist(cl))
         ELSE {}

\* lines 185-190: the positions queue_pos is called with for client cl
EnqSet(cl) ==
    IF added[cl] \/ needs_reload
    THEN ViewIter(viewPos[cl], EffViewDist(cl))
    ELSE IF oldPos[cl] # viewPos[cl] \/ EffOldDist(cl) # EffViewDist(cl)
         THEN ViewDiff(viewPos[cl], EffViewDist(cl), oldPos[cl], EffOldDist(cl))
         ELSE {}

\* queue_pos that treats an entry without priority like a vacant one
QueuePosRequeue(pend, c, dist) ==
    IF chunks[c] = NoChunk
    THEN IF pend[c] = Absent \/ pend[c] = InFlight
         THEN [pend EXCEPT ![c] = dist]
         ELSE [pend EXCEPT ![c] = Min(pend[c], dist)]
    ELSE pend

\* queue_pos without the layer.chunk(pos).is_none() test
QueuePosNoResidentCheck(pend, c, dist) ==
    IF pend[c] = Absent
    THEN [pend EXCEPT ![c] = dist]
    ELSE IF pend[c] # InFlight
         THEN [pend EXCEPT ![c] = Min(pend[c], dist)]
         ELSE pend

\* queue_pos that overwrites the priority instead of taking the minimum
QueuePosOverwrite(pend, c, dist) ==
    IF chunks[c] = NoChunk
    THEN IF pend[c] # InFlight THEN [pend EXCEPT ![c] = dist] ELSE pend
    ELSE pend

\* lines 168-183: the closure queue_pos, as a function of the table
QueuePos(pend, c, dist) ==
    IF chunks[c] = NoChunk
    THEN IF pend[c] = Absent
         THEN [pend EXCEPT ![c] = dist]
         ELSE IF pend[c] # InFlight
              THEN [pend EXCEPT ![c] = Min(pend[c], dist)]
              ELSE pend
    ELSE pend

\* view.iter().for_each(queue_pos) / view.diff(old_view).for_each(queue_pos)
RECURSIVE ForEachQueuePos(_, _, _)
ForEachQueuePos(pend, S, vpos) ==
    IF S = {} THEN pend
    ELSE LET c == CHOOSE x \in S : TRUE
         IN ForEachQueuePos(QueuePos(pend, c, DistanceSquared(vpos, c)),
                            S \ {c}, vpos)

\* lines 154-191: the loop over the clients, clients 1..n processed
RECURSIVE ClientLoop(_, _)
ClientLoop(pend, n) ==
    IF n = 0 THEN pend
    ELSE ForEachQueuePos(ClientLoop(pend, n - 1), EnqSet(n), viewPos[n])

\* history of the calls of queue_pos made by update_client_views
EnqCalls(c) ==
    {DistanceSquared(viewPos[cl], c) : cl \in {k \in Clients : c \in EnqSet(k)}}

\* a request channel still has a receiver: some worker thread of g is alive
Connected(g) == \E w \in Workers : worker[g][w] \notin {Exited, Panicked}

\* i32::clamp(1, height - 1) panics when its bounds are out of order
ClampPanics(h) == 1 > h - 1

\* -------------------------------------------------------------------- Init
\* TerrainGenerator::new: fresh channels, empty table, needs_reload set
NewPending == [c \in Coords |-> Absent]

Init ==
    /\ phase = "remove"
    /\ chunks = [c \in Coords |-> NoChunk]
    /\ pending = NewPending
    /\ needs_reload = TRUE
    /\ render_dist = 0
    /\ gen = 0
    /\ height = [g \in Gens |-> IF g = 0 THEN DefaultHeight ELSE 0]
    /\ reqCh = [g \in Gens |-> <<>>]
    /\ resCh = [g \in Gens |-> <<>>]
    /\ worker = [g \in Gens |-> [w \in Workers |-> Idle]]
    /\ viewPos \in [Clients -> Coords]
    /\ viewDist \in [Clients -> Dists]
    /\ oldPos = viewPos
    /\ oldDist = viewDist
    /\ added = [cl \in Clients |-> TRUE]
    /\ enq = [c \in Coords |-> {}]
    /\ asserted = FALSE
    /\ frozen = FALSE
    /\ job = <<>>
    /\ out = <<>>

\* ----------------------------------------------------------------- systems
\* chunk.viewer_count: the clients whose view held the position at the end of
\* the previous tick
ViewerCount(c) ==
    Cardinality({cl \in Clients : Contains(oldPos[cl], oldDist[cl], c)})

\* remove_unviewed_chunks: layer.retain_chunks(|_, chunk| viewer_count > 0)
remove_unviewed_chunks ==
    /\ ~asserted
    /\ UNCHANGED auxVars
    /\ phase = "remove"
    /\ phase' = "views"
    /\ chunks' = [c \in Coords |->
                    IF ViewerCount(c) > 0 THEN chunks[c] ELSE NoChunk]
    /\ UNCHANGED <<pending, needs_reload, render_dist, gen, height, poolVars,
                   clientVars, enq, asserted>>

\* update_client_views: queue the positions of every client, then clear the flag
update_client_views ==
    /\ ~asserted
    /\ UNCHANGED auxVars
    /\ phase = "views"
    /\ phase' = "flush"
    /\ pending' = ClientLoop(pending, NumClients)
    /\ needs_reload' = FALSE
    /\ enq' = [c \in Coords |-> EnqCalls(c)]
    /\ UNCHANGED <<chunks, render_dist, gen, height, poolVars, clientVars,
                   asserted>>

\* lines 202-205: insert the drained results msgs[i..] one by one; the assert
\* follows the insertion and stops the loop when it fails
RECURSIVE Drain(_, _, _, _)
Drain(msgs, i, chs, pend) ==
    IF i > Len(msgs) THEN [chunks |-> chs, pending |-> pend, ok |-> TRUE]
    ELSE LET pos == msgs[i][1]
             inserted == [chs EXCEPT ![pos] = msgs[i][2]]
         IN IF pend[pos] = Absent
            THEN [chunks |-> inserted, pending |-> pend, ok |-> FALSE]
            ELSE Drain(msgs, i + 1, inserted, [pend EXCEPT ![pos] = Absent])

\* to_send that collects every position, with or without an entry
ToSendEvery(pend) == Coords

\* lines 209-213: the entries that still have a priority
ToSend(pend) == {c \in Coords : pend[c] # Absent /\ pend[c] # InFlight}

\* to_send without the sort: any order of the table's iteration
UnsortedOrders(pend) ==
    LET S == ToSend(pend)
        n == Cardinality(S)
    IN {s \in [1..n -> S] : \A i, j \in 1..n : i # j => s[i] # s[j]}

\* lines 209-216: the orders to_send can have after sort_unstable_by_key (the
\* table is iterated in arbitrary order and equal keys are not ordered)
SortedOrders(pend) ==
    LET S == ToSend(pend)
        n == Cardinality(S)
    IN {s \in [1..n -> S] :
          /\ \A i, j \in 1..n : i # j => s[i] # s[j]
          /\ \A i, j \in 1..n : i < j => pend[s[i]] <= pend[s[j]]}

\* the loop reading the priority without take(): the entries keep it
TakeAllKeep(pend) == pend

\* lines 209-213: priority.take() leaves None in every entry that had one
TakeAll(pend) ==
    [c \in Coords |-> IF c \in ToSend(pend) THEN InFlight ELSE pend[c]]

\* lines 219-221: try_send of every position in order; it returns Err, which
\* is discarded, when the channel has no receiver left
TrySendAll(ch, order, connected) == IF connected THEN ch \o order ELSE ch

\* send_recv_chunks
send_recv_chunks ==
    /\ ~asserted
    /\ UNCHANGED auxVars
    /\ phase = "flush"
    /\ LET d == Drain(resCh[gen], 1, chunks, pending)
       IN /\ chunks' = d.chunks
          /\ resCh' = [resCh EXCEPT ![gen] = <<>>]
          /\ IF d.ok
             THEN /\ \E order \in SortedOrders(d.pending) :
                        reqCh' = [reqCh EXCEPT
                                    ![gen] = TrySendAll(@, order, Connected(gen))]
                  /\ pending' = TakeAll(d.pending)
                  /\ phase' = "post"
                  /\ asserted' = FALSE
             ELSE /\ asserted' = TRUE
                  /\ pending' = d.pending
                  /\ UNCHANGED <<reqCh, phase>>
    /\ UNCHANGED <<needs_reload, render_dist, gen, height, worker, clientVars, enq>>

\* host, end of the tick: OldView takes the view, the client is no longer new
end_tick ==
    /\ ~asserted
    /\ UNCHANGED auxVars
    /\ phase = "post"
    /\ phase' = "remove"
    /\ oldPos' = viewPos
    /\ oldDist' = viewDist
    /\ added' = [cl \in Clients |-> FALSE]
    /\ enq' = [c \in Coords |-> {}]
    /\ UNCHANGED <<chunks, pending, needs_reload, render_dist, gen, height,
                   poolVars, viewPos, viewDist, asserted>>

\* host, before the tick: a client moves or changes its view distance (one
\* client per tick)
move_client(cl, p, d) ==
    /\ ~asserted
    /\ ~frozen
    /\ UNCHANGED auxVars
    /\ phase = "remove"
    /\ <<p, d>> # <<viewPos[cl], viewDist[cl]>>
    /\ \A o \in Clients \ {cl} : viewPos[o] = oldPos[o] /\ viewDist[o] = oldDist[o]
    /\ viewPos' = [viewPos EXCEPT ![cl] = p]
    /\ viewDist' = [viewDist EXCEPT ![cl] = d]
    /\ UNCHANGED <<phase, chunks, pending, needs_reload, render_dist, gen, height,
                   poolVars, oldPos, oldDist, added, enq, asserted>>

\* ------------------------------------------------------------ worker threads
\* chunk_worker, state.receiver.recv() returns Ok(pos)
worker_recv(g, w) ==
    /\ ~asserted
    /\ UNCHANGED auxVars
    /\ g <= gen
    /\ worker[g][w] = Idle
    /\ reqCh[g] # <<>>
    /\ worker' = [worker EXCEPT ![g][w] = Head(reqCh[g])]
    /\ reqCh' = [reqCh EXCEPT ![g] = Tail(@)]
    /\ UNCHANGED <<phase, chunks, pending, needs_reload, render_dist, gen, height,
                   resCh, clientVars, enq, asserted>>

\* a worker whose sender reaches the receiver of the generator in place
SendResultShared(chs, g, pos) == [chs EXCEPT ![gen] = Append(@, <<pos, g>>)]

\* line 268: state.sender.send((pos, chunk)); the result is an Err, discarded,
\* when the generator that held the receiver has been replaced
SendResult(chs, g, pos) ==
    IF g = gen THEN [chs EXCEPT ![g] = Append(@, <<pos, g>>)] ELSE chs

\* chunk_worker, lines 227-268: synthesize the chunk and send it back
worker_finish(g, w) ==
    /\ ~asserted
    /\ UNCHANGED auxVars
    /\ g <= gen
    /\ worker[g][w] \in Coords
    /\ IF ClampPanics(height[g])
       THEN /\ worker' = [worker EXCEPT ![g][w] = Panicked]
            /\ UNCHANGED resCh
       ELSE /\ worker' = [worker EXCEPT ![g][w] = Idle]
            /\ resCh' = SendResult(resCh, g, worker[g][w])
    /\ UNCHANGED <<phase, chunks, pending, needs_reload, render_dist, gen, height,
                   reqCh, clientVars, enq, asserted>>

\* chunk_worker, line 226: recv() returns Err once the channel is empty and its
\* sender has been dropped with the replaced generator
worker_exit(g, w) ==
    /\ ~asserted
    /\ UNCHANGED auxVars
    /\ g < gen
    /\ worker[g][w] = Idle
    /\ reqCh[g] = <<>>
    /\ worker' = [worker EXCEPT ![g][w] = Exited]
    /\ UNCHANGED <<phase, chunks, pending, needs_reload, render_dist, gen, height,
                   reqCh, resCh, clientVars, enq, asserted>>

\* ------------------------------------------------------------------ reload
\* TerrainGenerator::reload: *self = Self::new(config, self.render_dist)
Reload(h) ==
    /\ gen' = gen + 1
    /\ height' = [height EXCEPT ![gen + 1] = h]
    /\ pending' = NewPending
    /\ needs_reload' = TRUE
    /\ resCh' = [resCh EXCEPT ![gen] = <<>>]
    /\ enq' = [c \in Coords |-> {}]
    /\ UNCHANGED <<render_dist, reqCh, worker>>

\* a caller of the library replaces the generator
reload(h) ==
    /\ ~asserted
    /\ ~frozen
    /\ UNCHANGED auxVars
    /\ gen < MaxGen
    /\ Reload(h)
    /\ UNCHANGED <<phase, chunks, clientVars, asserted>>

\* handle_reload with load_config() = Ok(config)
handle_reload_ok(h) ==
    /\ ~asserted
    /\ ~frozen
    /\ UNCHANGED auxVars
    /\ gen < MaxGen
    /\ chunks' = [c \in Coords |-> NoChunk]
    /\ Reload(h)
    /\ UNCHANGED <<phase, clientVars, asserted>>

\* handle_reload with load_config() = Err(e): the message is sent to the client
handle_reload_err ==
    /\ ~asserted
    /\ ~frozen
    /\ UNCHANGED auxVars
    /\ chunks' = [c \in Coords |-> NoChunk]
    /\ UNCHANGED <<phase, pending, needs_reload, render_dist, gen, height,
                   poolVars, clientVars, enq, asserted>>

\* TerrainGenerator::set_render_dist, called between two ticks
set_render_dist(d) ==
    /\ ~asserted
    /\ ~frozen
    /\ UNCHANGED auxVars
    /\ phase = "remove"
    /\ render_dist' = d
    /\ needs_reload' = TRUE
    /\ UNCHANGED <<phase, chunks, pending, gen, height, poolVars, clientVars,
                   enq, asserted>>

Next ==
    \/ remove_unviewed_chunks
    \/ update_client_views
    \/ send_recv_chunks
    \/ end_tick
    \/ \E cl \in Clients, p \in Coords, d \in Dists : move_client(cl, p, d)
    \/ \E g \in Gens, w \in Workers : worker_recv(g, w)
    \/ \E g \in Gens, w \in Workers : worker_finish(g, w)
    \/ \E g \in Gens, w \in Workers : worker_exit(g, w)
    \/ \E h \in Heights : reload(h)
    \/ \E h \in Heights : handle_reload_ok(h)
    \/ handle_reload_err
    \/ \E d \in Dists : set_render_dist(d)

Spec == Init /\ [][Next]_vars

\* The three systems run in every tick of the server and the host ends every
\* tick; every worker thread that can take or finish a request is scheduled.
Fairness ==
    /\ WF_vars(remove_unviewed_chunks)
    /\ WF_vars(update_client_views)
    /\ WF_vars(send_recv_chunks)
    /\ WF_vars(end_tick)
    /\ \A g \in Gens, w \in Workers :
          WF_vars(worker_recv(g, w)) /\ WF_vars(worker_finish(g, w))

FairSpec == Spec /\ Fairness

\* ------------------------------------------- a server whose inputs settle
\* TerrainGenerator::new with any configuration that parses
LiveInit ==
    /\ phase = "remove"
    /\ chunks = [c \in Coords |-> NoChunk]
    /\ pending = NewPending
    /\ needs_reload = TRUE
    /\ render_dist = 0
    /\ gen = 0
    /\ \E h \in Heights : height = [g \in Gens |-> IF g = 0 THEN h ELSE 0]
    /\ reqCh = [g \in Gens |-> <<>>]
    /\ resCh = [g \in Gens |-> <<>>]
    /\ worker = [g \in Gens |-> [w \in Workers |-> Idle]]
    /\ viewPos \in [Clients -> Coords]
    /\ viewDist \in [Clients -> Dists]
    /\ oldPos = viewPos
    /\ oldDist = viewDist
    /\ added = [cl \in Clients |-> TRUE]
    /\ enq = [c \in Coords |-> {}]
    /\ asserted = FALSE
    /\ frozen = FALSE
    /\ job = <<>>
    /\ out = <<>>

\* from here on no client moves or changes its distance, and nobody calls
\* set_render_dist or asks for a reload
freeze ==
    /\ ~asserted
    /\ ~frozen
    /\ phase = "remove"
    /\ frozen' = TRUE
    /\ UNCHANGED <<schedVars, job, out>>

LiveNext == Next \/ freeze

LiveSpec == LiveInit /\ [][LiveNext]_vars /\ Fairness

\* ===================================================== column synthesis
\* chunk_worker, lines 229-265, for one column of one chunk
MaxThick == 3
MaxLayers == 2
ColumnHeight == 16
U16Max == 65535

\* thickness of a layer: a u16, zero and the largest value included
Thicknesses == (0..MaxThick) \cup {U16Max}
LayerBlocks == {"DIRT", "GRASS"}
Block == "STONE"
Air == "AIR"
\* surface_layers: Vec<(u16, BlockState)>, bottom layer first
LayerLists ==
    UNION {[1..n -> Thicknesses \X LayerBlocks] : n \in 0..MaxLayers}
\* the noise sample of the column, converted with `as i32`
Samples == (-1)..(ColumnHeight + 1)

\* jobs: one column to synthesize; overflow_checks is the build's setting for
\* integer overflow (panic when on, wrap when off)
ColumnJobs ==
    [kind : {"column"}, layers : LayerLists, sample : Samples,
     H : {ColumnHeight}, overflow_checks : BOOLEAN]

SumPanics == -1

\* line 231: layers.iter().map(|(a, _)| a).sum::<u16>()
RECURSIVE SumU16(_, _, _, _)
SumU16(layers, i, acc, checks) ==
    IF i > Len(layers) THEN acc
    ELSE LET s == acc + layers[i][1]
         IN IF s > U16Max
            THEN IF checks THEN SumPanics
                 ELSE SumU16(layers, i + 1, s % (U16Max + 1), checks)
            ELSE SumU16(layers, i + 1, s, checks)

\* i32::clamp for bounds in order
ClampI32(n, lo, hi) == IF n < lo THEN lo ELSE IF n > hi THEN hi ELSE n

\* lines 243-246: while rem <= 0 { curidx += 1; rem += layers[curidx].0 }
\* (curidx counts from 0 as in the source; ok is FALSE when the index is out
\* of bounds)
RECURSIVE SkipLayers(_, _, _)
SkipLayers(layers, rem, curidx) ==
    IF rem > 0 THEN [rem |-> rem, curidx |-> curidx, ok |-> TRUE]
    ELSE IF curidx + 1 >= Len(layers)
         THEN [rem |-> rem, curidx |-> curidx + 1, ok |-> FALSE]
         ELSE SkipLayers(layers, rem + layers[curidx + 2][1], curidx + 1)

\* lines 247-264: for y in 0..chunk.height() { ... }
RECURSIVE FillColumn(_, _, _, _, _, _)
FillColumn(layers, H, y, rem, curidx, cells) ==
    IF y = H THEN cells
    ELSE LET idx == IF rem = 0 THEN curidx + 1 ELSE curidx
             r0 == IF rem = 0
                   THEN IF idx < Len(layers) THEN layers[idx + 1][1] ELSE 0
                   ELSE rem
             r == r0 - 1
             res_block == IF idx = -1 THEN Block
                          ELSE IF r < 0 THEN Air
                          ELSE layers[idx + 1][2]
         IN FillColumn(layers, H, y + 1, r, idx, Append(cells, res_block))

ColumnPanic == [panic |-> TRUE, cells |-> <<>>]

\* lines 229-265 for one (offset_x, offset_z)
Column(j) ==
    LET surface_height == SumU16(j.layers, 1, 0, j.overflow_checks)
    IN IF surface_height = SumPanics \/ ClampPanics(j.H) THEN ColumnPanic
       ELSE LET h == ClampI32(j.sample, 1, j.H - 1)
                sk == SkipLayers(j.layers, h - surface_height, -1)
            IN IF ~sk.ok THEN ColumnPanic
               ELSE [panic |-> FALSE,
                     cells |-> FillColumn(j.layers, j.H, 0, sk.rem,
                                          sk.curidx, <<>>)]

\* the scheduler at rest, while a function is studied on its own
AtRest ==
    /\ phase = "remove"
    /\ chunks = [c \in Coords |-> NoChunk]
    /\ pending = NewPending
    /\ needs_reload = TRUE
    /\ render_dist = 0
    /\ gen = 0
    /\ height = [g \in Gens |-> IF g = 0 THEN DefaultHeight ELSE 0]
    /\ reqCh = [g \in Gens |-> <<>>]
    /\ resCh = [g \in Gens |-> <<>>]
    /\ worker = [g \in Gens |-> [w \in Workers |-> Idle]]
    /\ viewPos = [cl \in Clients |-> 0]
    /\ viewDist = [cl \in Clients |-> 0]
    /\ oldPos = viewPos
    /\ oldDist = viewDist
    /\ added = [cl \in Clients |-> TRUE]
    /\ enq = [c \in Coords |-> {}]
    /\ asserted = FALSE
    /\ frozen = FALSE
    /\ out = <<>>

ColInit ==
    /\ AtRest
    /\ job \in ColumnJobs

\* a worker thread synthesizes the column
synthesize ==
    /\ job.kind = "column"
    /\ out = <<>>
    /\ out' = Column(job)
    /\ UNCHANGED <<schedVars, frozen, job>>

ColNext == synthesize

ColSpec == ColInit /\ [][ColNext]_vars

\* ==================================================== NoiseBuilder::parse
\* noise_builder.rs, lines 82-136, on the tokens split_whitespace yields
MaxTokens == 4

Keywords ==
    {"c", "abs", "neg", "min", "max", "add", "mul", "pow", "powi", "scalein",
     "clamp", "checkerboard", "perlin", "simplex"}
\* literals: a natural number, a negative integer, a fraction, and a word
\* that is neither a keyword nor a number
Tokens == Keywords \cup {"2", "-1", "0.5", "zzz"}
TokenSeqs == UNION {[1..n -> Tokens] : n \in 0..MaxTokens}
ParseJobs == [kind : {"parse"}, tokens : TokenSeqs]

\* str::parse::<T>() of a token succeeds for these tokens
Parses(ty, t) ==
    CASE ty = "f64" -> t \in {"2", "-1", "0.5"}
      [] ty = "i32" -> t \in {"2", "-1"}
      [] ty = "u32" -> t \in {"2"}

\* the value str::parse::<T>() yields: f64 values in halves, integers as
\* they are
ValueOf(ty, t) ==
    CASE ty = "f64" -> (CASE t = "2" -> 4 [] t = "-1" -> -2 [] t = "0.5" -> 1)
      [] ty = "i32" -> (CASE t = "2" -> 2 [] t = "-1" -> -1)
      [] ty = "u32" -> (CASE t = "2" -> 2)

\* a tree: the variant, its literal fields in order, its boxed children in
\* order
Node(variant, lits, args) ==
    [variant |-> variant, lits |-> lits, args |-> args]
NoTree == Node("", <<>>, <<>>)

ParseOk(tree, next) ==
    [ok |-> TRUE, tree |-> tree, val |-> 0, next |-> next,
     err |-> "", tok |-> ""]
ParseErr(msg, t, next) ==
    [ok |-> FALSE, tree |-> NoTree, val |-> 0, next |-> next,
     err |-> msg, tok |-> t]

\* lines 128-136: parse<T>(tokens); next is the position of the token the
\* iterator yields next
ParseLit(ty, toks, i) ==
    IF i > Len(toks)
    THEN ParseErr("Expected float, but ran out of tokens", "", i)
    ELSE IF Parses(ty, toks[i])
         THEN [ok |-> TRUE, tree |-> NoTree, val |-> ValueOf(ty, toks[i]),
               next |-> i + 1, err |-> "", tok |-> ""]
         ELSE ParseErr("could not parse float", toks[i], i + 1)

\* the variant a keyword stands for (lines 96-116)
Variant(t) ==
    CASE t = "c" -> "Constant" [] t = "abs" -> "Abs" [] t = "neg" -> "Neg"
      [] t = "add" -> "Add" [] t = "mul" -> "Mul" [] t = "min" -> "Min"
      [] t = "max" -> "Max" [] t = "pow" -> "Pow" [] t = "powi" -> "PowI"
      [] t = "scalein" -> "ScaleInput" [] t = "clamp" -> "Clamp"
      [] t = "checkerboard" -> "Checkerboard" [] t = "perlin" -> "Perlin"
      [] t = "simplex" -> "Simplex"

\* a two-operand node with its operands exchanged
BinarySwapped(t, l, r) == Node(Variant(t), <<>>, <<r, l>>)

\* lines 99-103: Self::Add(Self::eval(tokens)?, Self::eval(tokens)?) etc.
Binary(t, l, r) == Node(Variant(t), <<>>, <<l, r>>)

\* lines 92-126: from_tokens (eval boxes its result)
RECURSIVE FromTokens(_, _)
FromTokens(toks, i) ==
    IF i > Len(toks) THEN ParseErr("Not enough tokens", "", i)
    ELSE LET t == toks[i]
         IN CASE t = "c" ->
                  LET v == ParseLit("f64", toks, i + 1)
                  IN IF ~v.ok THEN v
                     ELSE ParseOk(Node(Variant(t), <<v.val>>, <<>>), v.next)
              [] t \in {"abs", "neg"} ->
                  LET e == FromTokens(toks, i + 1)
                  IN IF ~e.ok THEN e
                     ELSE ParseOk(Node(Variant(t), <<>>, <<e.tree>>), e.next)
              [] t \in {"add", "mul", "min", "max", "pow"} ->
                  LET l == FromTokens(toks, i + 1)
                  IN IF ~l.ok THEN l
                     ELSE LET r == FromTokens(toks, l.next)
                          IN IF ~r.ok THEN r
                             ELSE ParseOk(Binary(t, l.tree, r.tree), r.next)
              [] t = "powi" ->
                  LET n == ParseLit("i32", toks, i + 1)
                  IN IF ~n.ok THEN n
                     ELSE LET e == FromTokens(toks, n.next)
                          IN IF ~e.ok THEN e
                             ELSE ParseOk(Node(Variant(t), <<n.val>>,
                                               <<e.tree>>), e.next)
              [] t \in {"scalein", "clamp"} ->
                  LET a == ParseLit("f64", toks, i + 1)
                  IN IF ~a.ok THEN a
                     ELSE LET b == ParseLit("f64", toks, a.next)
                          IN IF ~b.ok THEN b
                             ELSE LET e == FromTokens(toks, b.next)
                                  IN IF ~e.ok THEN e
                                     ELSE ParseOk(Node(Variant(t),
                                                       <<a.val, b.val>>,
                                                       <<e.tree>>), e.next)
              [] t = "checkerboard" ->
                  ParseOk(Node(Variant(t), <<>>, <<>>), i + 1)
              [] t \in {"perlin", "simplex"} ->
                  LET v == ParseLit("u32", toks, i + 1)
                  IN IF ~v.ok THEN v
                     ELSE ParseOk(Node(Variant(t), <<v.val>>, <<>>), v.next)
              [] OTHER -> ParseErr("Invalid token", t, i + 1)

\* parse that returns the result of from_tokens whatever follows it
ParseNoTrailingCheck(toks) == FromTokens(toks, 1)

\* lines 82-90: NoiseBuilder::parse
Parse(toks) ==
    LET res == FromTokens(toks, 1)
    IN IF res.next <= Len(toks)
       THEN ParseErr("too many tokens", "", res.next + 1)
       ELSE res

ParseInit ==
    /\ AtRest
    /\ job \in ParseJobs

\* the configuration loader parses the noise expression
parse ==
    /\ job.kind = "parse"
    /\ out = <<>>
    /\ out' = Parse(job.tokens)
    /\ UNCHANGED <<schedVars, frozen, job>>

ParseNext == parse

ParseSpec == ParseInit /\ [][ParseNext]_vars

\* ================================================================== claims
\* number of times position c occurs in a channel of positions
Count(ch, c) == Cardinality({i \in DOMAIN ch : ch[i] = c})

\* unresolved dispatches of c in generation g: requests in the request channel,
\* requests being synthesized, results in the result channel
Unresolved(g, c) ==
    Count(reqCh[g], c)
    + Cardinality({w \in Workers : worker[g][w] = c})
    + Cardinality({i \in DOMAIN resCh[g] : resCh[g][i][1] = c})

\* C1: in every reachable state every position has at most one unresolved
\* dispatch (request queued, request being synthesized, result not drained)
\* in the channels and workers of a generator.
C1_Dedup == \A g \in Gens, c \in Coords : Unresolved(g, c) <= 1

\* C1 witness: a position with an unresolved dispatch has been enqueued again
\* in this tick and its entry is still the in-flight one.
C1_Witness ==
    /\ phase = "flush"
    /\ \E c \in Coords :
          enq[c] # {} /\ pending[c] = InFlight /\ Unresolved(gen, c) = 1

\* C2: no position is both resident in the chunk layer and present in the
\* pending table.
C2_Disjoint == \A c \in Coords : chunks[c] = NoChunk \/ pending[c] = Absent

\* C2 witness: queue_pos was called for a resident position while another
\* position has a pending entry.
C2_Witness ==
    /\ phase = "flush"
    /\ \E c, d \in Coords :
          enq[c] # {} /\ chunks[c] # NoChunk /\ pending[d] # Absent

\* C3: the assert of send_recv_chunks never fails: every result waiting in the
\* generator's result channel has a pending entry without priority.
C3_AssertHolds ==
    /\ ~asserted
    /\ \A i \in DOMAIN resCh[gen] : pending[resCh[gen][i][1]] = InFlight

\* C3 witness: a flush has drained a result: its chunk is resident and its
\* entry is gone.
C3_Witness ==
    /\ phase = "post"
    /\ ~asserted
    /\ \E c \in Coords : chunks[c] = gen /\ pending[c] = Absent

\* C4: a flush whose submissions fail (the request channel has no receiver)
\* leaves every entry it tried to submit Queued with its original priority.
C4_RevertOnSendFailure ==
    [][(phase = "flush" /\ phase' = "post" /\ ~Connected(gen))
        => \A c \in ToSend(pending) : pending'[c] = pending[c]]_vars

\* C5: every chunk a step inserts into the chunk layer was produced by the
\* generation that holds the generator at that step; a result of a replaced
\* generation is never inserted.
C5_NoStaleInsert ==
    [][\A c \in Coords :
          (chunks'[c] # chunks[c] /\ chunks'[c] # NoChunk)
              => (chunks'[c] = gen /\ gen' = gen)]_vars

\* C5 witness: after a reload a worker of the replaced generation is still
\* synthesizing a position, which the new generator has dispatched again.
C5_Witness ==
    /\ gen > 0
    /\ \E c \in Coords, w \in Workers :
          worker[0][w] = c /\ pending[c] = InFlight /\ Unresolved(gen, c) = 1

\* positions some client sees this tick (distance clipped by the override)
Visible(c) ==
    \E cl \in Clients : Contains(viewPos[cl], EffViewDist(cl), c)

\* update_client_views of generator g is about to run with the reload flag set
\* and c is visible and not resident
ToBeQueued(g, c) ==
    /\ gen = g
    /\ needs_reload
    /\ phase = "views"
    /\ Visible(c)
    /\ chunks[c] = NoChunk

\* C6: when update_client_views is about to run with the reload flag set, as
\* it is in the first cycle of a new generator g, every visible position that
\* is not resident is eventually inserted into the chunk layer with a chunk of
\* generation g, unless the generator is replaced again.
C6_ReloadResolves ==
    \A g \in Gens, c \in Coords :
        ToBeQueued(g, c) ~> (chunks[c] = g \/ gen # g)

\* C7: a reload whose configuration fails to load changes nothing: the chunk
\* layer, the generator, its table, channels and workers are as before.
C7_FailedReloadKeepsState ==
    [][handle_reload_err
        => UNCHANGED <<chunks, pending, needs_reload, render_dist, gen, height,
                       reqCh, resCh, worker>>]_vars

\* C8: a flush turns exactly the entries that have a priority into in-flight
\* ones and leaves the others as the drain left them; with a receiver on the
\* request channel it appends exactly those positions, each once, in
\* ascending order of the priority they had.
C8_FlushOrder ==
    [][(phase = "flush" /\ phase' = "post")
        => LET S == ToSend(pending)
               old == reqCh[gen]
               new == reqCh'[gen]
               n == Len(new) - Len(old)
           IN /\ \A c \in S : pending'[c] = InFlight
              /\ \A c \in Coords \ S :
                    pending'[c] = pending[c] \/ pending'[c] = Absent
              /\ Connected(gen) =>
                    /\ n = Cardinality(S)
                    /\ SubSeq(new, 1, Len(old)) = old
                    /\ {new[Len(old) + i] : i \in 1..n} = S
                    /\ \A i, j \in 1..n :
                          pending[new[Len(old) + i]] < pending[new[Len(old) + j]]
                              => i < j]_vars

\* C8 witness: in the first tick the flush has put two positions of different
\* priority on the request channel, the closer one first.
C8_Witness ==
    /\ phase = "post"
    /\ gen = 0
    /\ added[1]
    /\ \E c, d \in Coords :
          /\ reqCh[gen] = <<c, d>>
          /\ enq[c] # {} /\ enq[d] # {}
          /\ SetMin(enq[c]) < SetMin(enq[d])

\* C9: update_client_views leaves, for every position that is not resident,
\* not in flight and enqueued at least once, the minimum of the priorities it
\* was enqueued with and of the priority it had.
C9_MinPriority ==
    [][(phase = "views" /\ phase' = "flush")
        => \A c \in Coords :
              (chunks[c] = NoChunk /\ pending[c] # InFlight /\ EnqCalls(c) # {})
                  => pending'[c] =
                        SetMin(EnqCalls(c)
                               \cup (IF pending[c] = Absent THEN {} ELSE {pending[c]}))]_vars

\* C9 witness: a position was enqueued with two different priorities in one
\* tick and holds the smaller one.
C9_Witness ==
    /\ phase = "flush"
    /\ \E c \in Coords :
          /\ Cardinality(enq[c]) >= 2
          /\ chunks[c] = NoChunk
          /\ pending[c] = SetMin(enq[c])

\* C10: update_client_views changes no entry of a position that is in flight
\* or resident, and changes neither the chunk layer nor a channel.
C10_EnqueueFrame ==
    [][(phase = "views" /\ phase' = "flush")
        => /\ \A c \in Coords :
                (pending[c] = InFlight \/ chunks[c] # NoChunk)
                    => pending'[c] = pending[c]
           /\ UNCHANGED <<chunks, reqCh, resCh>>]_vars

\* C10 witness: in one tick queue_pos was called for a position in flight and
\* for a resident position.
C10_Witness ==
    /\ phase = "flush"
    /\ \E c, d \in Coords :
          /\ enq[c] # {} /\ pending[c] = InFlight /\ chunks[c] = NoChunk
          /\ enq[d] # {} /\ chunks[d] # NoChunk /\ pending[d] = Absent


\* ------------------------------------------------------- incremental diff
\* a requested distance clipped to the render-distance override
ClippedDist(d) == IF render_dist # 0 THEN Min(d, render_dist) ELSE d

\* the visible sets of client cl: its own center and radius, each clipped
CurVisible(cl) == ViewIter(viewPos[cl], ClippedDist(viewDist[cl]))
PrevVisible(cl) == ViewIter(oldPos[cl], ClippedDist(oldDist[cl]))

\* the regions the view-diff step is to enqueue for client cl
DueSet(cl) ==
    IF added[cl] \/ needs_reload THEN CurVisible(cl)
    ELSE CurVisible(cl) \ PrevVisible(cl)

ViewsStep == phase = "views" /\ phase' = "flush"

\* C11: for an observer that is not newly tracked and whose layer's reload
\* flag is clear, update_client_views enqueues every region of the current
\* visible set that is not in the previous visible set (each set clipped with
\* its own radius), and enqueues no region that no observer is due.
C11_IncrementalDiff ==
    [][ViewsStep =>
          /\ \A cl \in Clients : (~added[cl] /\ ~needs_reload) =>
                \A c \in CurVisible(cl) \ PrevVisible(cl) :
                    chunks[c] = NoChunk => pending'[c] # Absent
          /\ \A c \in Coords :
                (\A cl \in Clients : c \notin DueSet(cl))
                    => pending'[c] = pending[c]]_vars


\* C12: when a client is newly tracked or the reload flag is set,
\* update_client_views enqueues every region of that client's current visible
\* set; every client of the loop sees the flag, which is cleared once the loop
\* is over, so it is false when the step ends. Creating or replacing the
\* generator and set_render_dist set the flag.
C12_FullRequeue ==
    [][/\ ViewsStep =>
            /\ needs_reload' = FALSE
            /\ \A cl \in Clients : (added[cl] \/ needs_reload) =>
                  \A c \in CurVisible(cl) :
                      chunks[c] = NoChunk => pending'[c] # Absent
       /\ (gen' # gen \/ \E d \in Dists : set_render_dist(d))
            => needs_reload']_vars

\* the flag alone made two unmoved clients with disjoint views enqueue
C12_Witness ==
    /\ phase = "flush" /\ ~needs_reload
    /\ \A cl \in Clients :
          /\ ~added[cl] /\ viewDist[cl] = 0
          /\ oldPos[cl] = viewPos[cl] /\ oldDist[cl] = viewDist[cl]
          /\ enq[viewPos[cl]] # {} /\ pending[viewPos[cl]] # Absent
    /\ \E a, b \in Clients : viewPos[a] # viewPos[b]


\* C18: send_recv_chunks run with an empty table and an empty result channel
\* changes neither the table, nor the chunk storage, nor the request channel,
\* nor the result channel, so any number of such runs leaves the same state.
C18_EmptyFlushNoOp ==
    [][(phase = "flush" /\ phase' # "flush"
          /\ pending = NewPending /\ resCh[gen] = <<>>)
         => UNCHANGED <<pending, chunks, reqCh, resCh>>]_vars

\* the first flush after a reload that came between the views step and the
\* flush of the first tick: nothing to drain, nothing to send
C18_Witness ==
    /\ phase = "post" /\ gen > 0 /\ added[1]
    /\ pending = NewPending /\ chunks = [c \in Coords |-> NoChunk]
    /\ reqCh[gen] = <<>> /\ resCh[gen] = <<>>
    /\ \A w \in Workers : worker[gen][w] = Idle


\* ---------------------------------------------------------- worker shutdown
\* the worker thread w of generation g has left its loop
LeftLoop(g, w) == worker[g][w] \in {Exited, Panicked}

\* C17: a worker thread of a replaced generator leaves its loop only when no
\* request remains queued in its channel.
C17_DrainBeforeExit ==
    \A g \in Gens, w \in Workers :
        (g < gen /\ LeftLoop(g, w)) => reqCh[g] = <<>>

\* --------------------------------------------------------------- settling
\* every region of every client's effective visible set is resident and the
\* table is empty
Settled ==
    /\ \A cl \in Clients : \A c \in CurVisible(cl) : chunks[c] # NoChunk
    /\ pending = NewPending

\* C20: once positions, distances and the override change no more (and no
\* reload is asked for), the systems and the worker threads being scheduled
\* fairly, eventually every visible region is resident and the table is empty
\* and stays so.
C20_EventuallySettled == frozen ~> []Settled


\* ------------------------------------------------------- column synthesis
\* the height h of the column under study and its layers
ColH == ClampI32(job.sample, 1, job.H - 1)
ColDone == job # <<>> /\ job.kind = "column" /\ out # <<>>
\* cell y of the synthesized column (cells are numbered from 0)
Cell(y) == out.cells[y + 1]

\* total thickness of the layers i..Len(layers), as an unbounded integer
RECURSIVE ThicknessFrom(_, _)
ThicknessFrom(layers, i) ==
    IF i > Len(layers) THEN 0
    ELSE layers[i][1] + ThicknessFrom(layers, i + 1)

\* the reference layout: the layers stacked downwards from cell h - 1, base
\* material below the stack, air from cell h upwards
RefCell(layers, h, y) ==
    IF y >= h THEN Air
    ELSE LET k == h - y
             holds(i) == /\ ThicknessFrom(layers, i + 1) < k
                         /\ k <= ThicknessFrom(layers, i)
         IN IF \E i \in 1..Len(layers) : holds(i)
            THEN layers[CHOOSE i \in 1..Len(layers) : holds(i)][2]
            ELSE Block

\* C13: for every height h in [1, H-1] and every non-empty list of layers
\* with any u16 thicknesses, the column has the material of the last layer at
\* cell h - 1 and air at every cell y >= h.
C13_TopAndAir ==
    (ColDone /\ Len(job.layers) > 0) =>
        /\ ~out.panic
        /\ Cell(ColH - 1) = job.layers[Len(job.layers)][2]
        /\ \A y \in ColH..(job.H - 1) : Cell(y) = Air

\* C14: when h does not exceed the total thickness T no cell holds the base
\* material; when h is at most the thickness of the topmost layer the cells
\* [0, h) hold that layer's material and the cells [h, H) are air; without
\* layers the cells [0, h) hold the base material.
C14_NoBaseWhenTruncated ==
    ColDone =>
        LET layers == job.layers
            n == Len(layers)
        IN /\ ColH <= ThicknessFrom(layers, 1) =>
                /\ ~out.panic
                /\ \A y \in 0..(job.H - 1) : Cell(y) # Block
           /\ (n > 0 /\ ColH <= layers[n][1]) =>
                /\ ~out.panic
                /\ \A y \in 0..(ColH - 1) : Cell(y) = layers[n][2]
                /\ \A y \in ColH..(job.H - 1) : Cell(y) = Air
           /\ n = 0 =>
                /\ ~out.panic
                /\ \A y \in 0..(ColH - 1) : Cell(y) = Block

\* C19: for every height h in [1, H-1] and every list of layers of positive
\* thickness the column equals the reference layout.
C19_ReferenceLayout ==
    (ColDone /\ \A i \in 1..Len(job.layers) : job.layers[i][1] > 0) =>
        /\ ~out.panic
        /\ \A y \in 0..(job.H - 1) : Cell(y) = RefCell(job.layers, ColH, y)


\* ---------------------------------------------------- NoiseBuilder::parse
\* The grammar, generatively: the well-formed expressions of exactly n tokens
\* with the tree each denotes.
Expr(toks, tree) == [toks |-> toks, tree |-> tree]

F64Lits == {t \in Tokens : Parses("f64", t)}
I32Lits == {t \in Tokens : Parses("i32", t)}
U32Lits == {t \in Tokens : Parses("u32", t)}

RECURSIVE ExprsOfLen(_)
ExprsOfLen(n) ==
    IF n <= 0 THEN {}
    ELSE
      (IF n = 1 THEN {Expr(<<"checkerboard">>, Node("Checkerboard", <<>>, <<>>))}
       ELSE {})
      \cup (IF n = 2
            THEN {Expr(<<"c", t>>, Node("Constant", <<ValueOf("f64", t)>>, <<>>))
                    : t \in F64Lits}
                 \cup {Expr(<<"perlin", t>>,
                            Node("Perlin", <<ValueOf("u32", t)>>, <<>>))
                         : t \in U32Lits}
                 \cup {Expr(<<"simplex", t>>,
                            Node("Simplex", <<ValueOf("u32", t)>>, <<>>))
                         : t \in U32Lits}
            ELSE {})
      \cup {Expr(<<u[1]>> \o e.toks, Node(u[2], <<>>, <<e.tree>>))
              : u \in {<<"abs", "Abs">>, <<"neg", "Neg">>},
                e \in ExprsOfLen(n - 1)}
      \cup UNION {
             {Expr(<<b[1]>> \o l.toks \o r.toks,
                   Node(b[2], <<>>, <<l.tree, r.tree>>))
                : b \in {<<"add", "Add">>, <<"mul", "Mul">>, <<"min", "Min">>,
                         <<"max", "Max">>, <<"pow", "Pow">>},
                  l \in ExprsOfLen(a), r \in ExprsOfLen(n - 1 - a)}
             : a \in 1..(n - 2)}
      \cup {Expr(<<"powi", t>> \o e.toks,
                 Node("PowI", <<ValueOf("i32", t)>>, <<e.tree>>))
              : t \in I32Lits, e \in ExprsOfLen(n - 2)}
      \cup {Expr(<<s[1], x, y>> \o e.toks,
                 Node(s[2], <<ValueOf("f64", x), ValueOf("f64", y)>>,
                      <<e.tree>>))
              : s \in {<<"scalein", "ScaleInput">>, <<"clamp", "Clamp">>},
                x \in F64Lits, y \in F64Lits, e \in ExprsOfLen(n - 3)}

WellFormed == UNION {ExprsOfLen(n) : n \in 1..MaxTokens}
WellFormedStrings == {e.toks : e \in WellFormed}

ParseDone == job # <<>> /\ job.kind = "parse" /\ out # <<>>

\* C15: parse returns an error and no tree for every token string that is
\* not exactly one well-formed expression (unknown token, literal of the
\* wrong type, missing operands, the empty string, trailing tokens).
C15_MalformedRejected ==
    (ParseDone /\ job.tokens \notin WellFormedStrings) =>
        (~out.ok /\ out.tree = NoTree)

\* an error was returned for each kind of malformed string
C15_Witness ==
    /\ ParseDone /\ ~out.ok /\ job.tokens \notin WellFormedStrings
    /\ Len(job.tokens) = MaxTokens
    /\ job.tokens[1] = "scalein" /\ job.tokens[3] = "zzz"

\* C16: for every token string that is exactly one well-formed expression
\* parse succeeds, consumes every token, and returns the tree of the grammar:
\* fixed arity, literal fields and operands in the order written.
C16_WellFormedParsed ==
    ParseDone =>
        \A e \in WellFormed :
            e.toks = job.tokens =>
                (out.ok /\ out.tree = e.tree /\ out.next = Len(job.tokens) + 1)

\* a binary operator with two different operands was parsed
C16_Witness ==
    /\ ParseDone /\ out.ok
    /\ job.tokens = <<"add", "checkerboard", "abs", "checkerboard">>
    /\ out.tree.variant = "Add"
    /\ out.tree.args[2].variant = "Abs"


\* some proper prefix of the token string is a complete expression
CompletePrefix(toks) ==
    \E k \in 1..(Len(toks) - 1) : SubSeq(toks, 1, k) \in WellFormedStrings

\* C21: parse reports "too many tokens" only when a complete top-level
\* expression was parsed and tokens remain; a string that starts with an
\* unknown token gets the error that names that token, whatever follows it.
C21_TrailingErrorOnlyAfterSuccess ==
    ParseDone =>
        /\ out.err = "too many tokens" => CompletePrefix(job.tokens)
        /\ (Len(job.tokens) > 0 /\ job.tokens[1] \notin Keywords) =>
              (out.err = "Invalid token" /\ out.tok = job.tokens[1])

====
